---- MODULE Spec2Model ----
(***************************************************************************)
(* Request lifecycle of the RTF-to-HTML route of docsmith: the route's     *)
(* onRequest check and content-type parser (src/routes/rtf/html/index.js), *)
(* the rtf-to-html plugin's onRequest, preHandler and onSend hooks         *)
(* (plugins/rtf-to-html), the server's error handler (server.js) and the   *)
(* temp directory the requests share.                                      *)
(***************************************************************************)
EXTENDS Integers, Sequences, FiniteSets, TLC

\* ------------------------------------------------------------- bounds
MaxSidecars == 1
MaxExternalRemoves == 1
\* The style elements of a document, and how often tidyCss is run on it
MaxStyles == 2
MaxPasses == 2

\* Two requests in flight at once
Reqs == {1, 2}

\* ------------------------------------------------------------- helpers
IsPrefix(p, s) == Len(p) <= Len(s) /\ SubSeq(s, 1, Len(p)) = p

\* phrase occurs in msg as a contiguous run (an unanchored regular expression
\* of literal characters)
Contains(msg, phrase) ==
    \E i \in 0..(Len(msg) - Len(phrase)) :
        SubSeq(msg, i + 1, i + Len(phrase)) = phrase

\* ------------------------------------------------------------- inputs
\* Request bodies, as byte sequences.  RtfMagic is "{\rtf".
RtfMagic == <<123, 92, 114, 116, 102>>
Bodies ==
    { <<>>,                              \* missing or empty body
      RtfMagic \o <<49>>,                \* "{\rtf1"
      <<123, 92, 114, 116>>,             \* truncated signature
      <<37, 80, 68, 70, 45>> }           \* "%PDF-"

\* What file-type's fromBuffer() reports for a buffer: the mime of the
\* signature found at its start, or "undefined".
fromBufferFourBytes(payload) ==
    IF IsPrefix(SubSeq(RtfMagic, 1, 4), payload) THEN "application/rtf"
    ELSE "undefined"
fromBuffer(payload) ==
    IF IsPrefix(RtfMagic, payload) THEN "application/rtf"
    ELSE IF IsPrefix(<<37, 80, 68, 70, 45>>, payload) THEN "application/pdf"
    ELSE "undefined"

\* Declared Content-Type headers and whether the Accept header admits text/html
ContentTypes == {"application/rtf", "application/html"}
accepts == {"text/html"}
AcceptHeaders == { {"application/json", "text/html"}, {"application/javascript"} }

\* req.accepts().type(accepts): truthy iff one of the types is acceptable
AcceptsAnything(header, types) == TRUE
AcceptsType(header, types) == header \cap types # {}

\* ------------------------------------------------------------- errors
NotMediaType == <<"File", "is", "not", "the", "correct", "media", "type">>
ConverterErrors ==
    { <<"Error:">> \o NotMediaType,
      <<"Error:", "spawn", "unrtf", "ENOENT">> }

\* /File is not the correct media type/.test(err)
IsNotMediaTypeNever(e) == FALSE
IsNotMediaType(e) == Contains(e, NotMediaType)

NoError == [statusCode |-> 0, message |-> <<>>]
HttpError(code, msg) == [statusCode |-> code, message |-> msg]
PlainError(msg) == [statusCode |-> 0, message |-> msg]

\* The 415 for a Content-Type no parser is registered for: its message names
\* the type ("Unsupported Media Type: application/html")
InvalidMediaTypeUnnamed(contentType) ==
    HttpError(415, <<"Unsupported", "Media", "Type">>)
InvalidMediaType(contentType) ==
    HttpError(415, <<"Unsupported", "Media", "Type:", contentType>>)

\* ------------------------------------------------------------- temp directory
directory == <<"temp", "/">>
\* randomUUID(): an id of fixed width that was not handed out before.  Ids are
\* interchangeable, so they are handed out in one order.
IdOf(n) == << <<"0", "1">>[(n \div 2) + 1], <<"0", "1">>[(n % 2) + 1] >>
randomUUID(used) == IdOf(Cardinality(used) + 1)

\* path.joinSafe(directory, `${id}.rtf`)
TempFile(id) == directory \o id \o <<".rtf">>
Sidecar(id, k) == directory \o id \o <<"-pict", ToString(k)>>
NoLocation == [directory |-> <<>>, rtf |-> <<>>, id |-> <<>>]
DocLocationUnset(id) == NoLocation
DocLocation(id) == [directory |-> directory, rtf |-> TempFile(id), id |-> id]

\* glob.sync(`${path.joinSafe(directory, id)}*`): the files of the directory
\* whose path starts with directory/id
GlobRtfOnly(loc, files) == { f \in files : f = loc.directory \o loc.id \o <<".rtf">> }
GlobWholeDirectory(loc, files) == { f \in files : IsPrefix(loc.directory, f) }
Glob(loc, files) == { f \in files : IsPrefix(loc.directory \o loc.id, f) }


\* ------------------------------------------------------------- tidyCss
\* Text is a sequence of one-character strings, so that splitting, trimming,
\* the regular expressions and the escaping act on characters as they do in
\* the code.
Letters ==
    { "a", "b", "c", "d", "e", "f", "g", "h", "i", "j", "k", "l", "m",
      "n", "o", "p", "q", "r", "s", "t", "u", "v", "w", "x", "y", "z",
      "A", "B", "C", "D", "E", "F", "G", "H", "I", "J", "K", "L", "M",
      "N", "O", "P", "Q", "R", "S", "T", "U", "V", "W", "X", "Y", "Z" }

StartsWith(s, p) == Len(s) >= Len(p) /\ SubSeq(s, 1, Len(p)) = p
Drop(s, n) == SubSeq(s, n + 1, Len(s))

\* String.prototype.trim
RECURSIVE trimStart(_)
trimStart(s) == IF s # <<>> /\ s[1] = " " THEN trimStart(Tail(s)) ELSE s
RECURSIVE trimEnd(_)
trimEnd(s) ==
    IF s # <<>> /\ s[Len(s)] = " " THEN trimEnd(SubSeq(s, 1, Len(s) - 1)) ELSE s
trim(s) == trimEnd(trimStart(s))

\* String.prototype.split(","): the pieces between the commas, in order
RECURSIVE split(_)
split(s) ==
    IF \A i \in 1..Len(s) : s[i] # ","
    THEN <<s>>
    ELSE LET k == CHOOSE i \in 1..Len(s) :
                      s[i] = "," /\ \A j \in 1..(i - 1) : s[j] # ","
         IN <<SubSeq(s, 1, k - 1)>> \o split(Drop(s, k))

\* Array.prototype.join
RECURSIVE join(_, _)
join(parts, sep) ==
    IF parts = <<>> THEN <<>>
    ELSE IF Len(parts) = 1 THEN parts[1]
    ELSE parts[1] \o sep \o join(Tail(parts), sep)

\* font.replace(/<\/style>/gm, ""): one pass from left to right over the
\* text, matching these eight characters exactly
StyleClose == <<"<", "/", "s", "t", "y", "l", "e", ">">>
RECURSIVE replaceStyleClose(_)
replaceStyleClose(s) ==
    IF s = <<>> THEN <<>>
    ELSE IF StartsWith(s, StyleClose) THEN replaceStyleClose(Drop(s, Len(StyleClose)))
    ELSE <<s[1]>> \o replaceStyleClose(Tail(s))

\* cssEsc(string, { quotes: "double", wrap: true }): a backslash before every
\* backslash and double quote, the result between double quotes
RECURSIVE escapeChars(_)
escapeChars(s) ==
    IF s = <<>> THEN <<>>
    ELSE (IF s[1] \in {"\\", "\""} THEN <<"\\", s[1]>> ELSE <<s[1]>>)
         \o escapeChars(Tail(s))
cssEsc(s) == <<"\"">> \o escapeChars(s) \o <<"\"">>

\* /[^a-zA-Z-]+/.test(font.trim())
NeedsQuotesNever(font) == FALSE
NeedsQuotes(font) ==
    \E i \in 1..Len(trim(font)) : trim(font)[i] \notin Letters \cup {"-"}

\* One name of a font-family value
parsedFont(font) ==
    IF NeedsQuotes(font) THEN cssEsc(trim(replaceStyleClose(font))) ELSE trim(font)

\* fonts.map(...).join(", ")
parsedFonts(value) ==
    LET fonts == split(value)
    IN join([i \in 1..Len(fonts) |-> parsedFont(fonts[i])], <<",", " ">>)

\* A style rule is its selector text and its declarations; a property that is
\* not declared has the value <<>>.  The documents are those whose style
\* sheets hold style rules only, each with at least one declaration; a sheet
\* may hold no rule at all.
Props == {"font-family", "color", "page-break-inside", "background-color"}
NoStyle == [p \in Props |-> <<>>]
Declares(styleRule, p) == styleRule.style[p] # <<>>

\* CSSStyleDeclaration.setProperty
setProperty(styleRule, p, value) == [styleRule EXCEPT !.style[p] = value]

\* The "div {}" sheet the code creates for a document without style elements
DivSelector == <<"d", "i", "v">>
DivStyle == [where |-> "head", rules |-> << [selectorText |-> DivSelector, style |-> NoStyle] >>]

\* document.querySelectorAll("style"), after the sheet above was added when the
\* document has none and an override is given
querySelectorAllOnly(html, newFonts, newBackgroundColor) == html
querySelectorAll(html, newFonts, newBackgroundColor) ==
    IF Len(html) = 0 /\ (newFonts # <<>> \/ newBackgroundColor # <<>>)
    THEN <<DivStyle>>
    ELSE html

\* combinedStyle.innerHTML += style.innerHTML for every style element in
\* document order, then CSSOM.parse: the rules of all sheets in that order
combineFirstOnly(styles) == IF styles = <<>> THEN <<>> ELSE styles[1].rules
RECURSIVE combine(_)
combine(styles) ==
    IF styles = <<>> THEN <<>> ELSE styles[1].rules \o combine(Tail(styles))

\* newFonts && (styleRule.style["font-family"] || styles.length === 1)
replacesFontSoleRule(styleRule, styles, newFonts) ==
    newFonts # <<>> /\ (Declares(styleRule, "font-family") \/ Len(combine(styles)) = 1)
replacesFont(styleRule, styles, newFonts) ==
    newFonts # <<>> /\ (Declares(styleRule, "font-family") \/ Len(styles) = 1)

replaceFont(styleRule, styles, newFonts) ==
    IF replacesFont(styleRule, styles, newFonts)
    THEN setProperty(styleRule, "font-family", newFonts)
    ELSE styleRule

\* if (styleRule.style["font-family"]) { ... setProperty(parsedFonts.join(", ")) }
quoteFonts(styleRule) ==
    IF Declares(styleRule, "font-family")
    THEN setProperty(styleRule, "font-family", parsedFonts(styleRule.style["font-family"]))
    ELSE styleRule

\* styleRule.selectorText.substring(0, 3) === "div"
isDivRuleAny(selectorText) == TRUE
isDivRule(selectorText) ==
    SubSeq(selectorText, 1, IF Len(selectorText) < 3 THEN Len(selectorText) ELSE 3) = DivSelector

Avoid == <<"a", "v", "o", "i", "d">>
divRule(styleRule, newBackgroundColor) ==
    IF isDivRule(styleRule.selectorText)
    THEN LET avoided == setProperty(styleRule, "page-break-inside", Avoid)
         IN IF newBackgroundColor # <<>>
            THEN setProperty(avoided, "background-color", newBackgroundColor)
            ELSE avoided
    ELSE styleRule

\* cssCleaner.minify on the serialised rules: the white space the sheet does
\* not need goes, here the space after the commas of a font-family value
RECURSIVE minifyValue(_)
minifyValue(value) ==
    IF value = <<>> THEN <<>>
    ELSE IF StartsWith(value, <<",", " ">>) THEN <<",">> \o minifyValue(Drop(value, 2))
    ELSE <<value[1]>> \o minifyValue(Tail(value))
minify(rules) ==
    [i \in 1..Len(rules) |->
        setProperty(rules[i], "font-family", minifyValue(rules[i].style["font-family"]))]

\* tidyCss(html, options): the rules after each step of the loop over the
\* rules, and the document returned, whose one style element is appended to
\* the head
tidyCss(html, options) ==
    LET newBackgroundColor == options.backgroundColor
        newFonts == options.fonts
        styles == querySelectorAll(html, newFonts, newBackgroundColor)
        cssRules == combine(styles)
        replaced == [i \in 1..Len(cssRules) |-> replaceFont(cssRules[i], styles, newFonts)]
        quoted == [i \in 1..Len(cssRules) |-> quoteFonts(replaced[i])]
        styleObj == [i \in 1..Len(cssRules) |-> divRule(quoted[i], newBackgroundColor)]
    IN [cssRules |-> cssRules, replaced |-> replaced, styleObj |-> styleObj,
        html |-> << [where |-> "head", rules |-> minify(styleObj)] >>]

\* The font-family values, style elements, documents and options tidyCss is
\* run on
FontOverrides ==
    { <<>>,
      <<"A", "b">>,
      <<"C", " ", "d">>,
      <<"x">> \o StyleClose,
      <<"<", "/", "s", "t", "y">> \o StyleClose \o <<"l", "e", ">">>,
      <<"<", "/", "S", "T", "Y", "L", "E", ">">> }
BackgroundColors == { <<>>, <<"#", "f", "f", "f">> }
Options == [fonts : FontOverrides, backgroundColor : BackgroundColors]
NoOptions == [fonts |-> <<>>, backgroundColor |-> <<>>]

Red == <<"r", "e", "d">>
Blue == <<"b", "l", "u", "e">>
StyleElements ==
    { [where |-> "head", rules |-> <<>>],
      [where |-> "head", rules |-> <<
          [selectorText |-> DivSelector, style |-> [NoStyle EXCEPT !["color"] = Red]] >>],
      [where |-> "body", rules |-> <<
          [selectorText |-> <<"p">>, style |-> [NoStyle EXCEPT !["color"] = Blue]] >>],
      [where |-> "head", rules |-> <<
          [selectorText |-> <<"p">>,
           style |-> [NoStyle EXCEPT !["font-family"] = <<"A", "b", ",", " ", "C", " ", "d">>]] >>],
      [where |-> "head", rules |-> <<
          [selectorText |-> DivSelector \o <<".", "a">>,
           style |-> [NoStyle EXCEPT
                         !["font-family"] = <<"A", "b", ",", " ", "\"", "C", "/", "d", "\"">>,
                         !["background-color"] = <<"#", "0", "0", "0">>]],
          [selectorText |-> <<"p", " ">> \o DivSelector,
           style |-> [NoStyle EXCEPT !["color"] = Red]] >>],
      [where |-> "head", rules |-> <<
          [selectorText |-> <<"d", "i">>,
           style |-> [NoStyle EXCEPT !["font-family"] = <<" ", "A", "-", "b", " ", ",", "A", "b">>]] >>],
      [where |-> "body", rules |-> <<
          [selectorText |-> DivSelector,
           style |-> [NoStyle EXCEPT !["page-break-inside"] = <<"a", "u", "t", "o">>]],
          [selectorText |-> <<"p">>, style |-> [NoStyle EXCEPT !["color"] = Blue]] >>] }
Documents == UNION { [1..n -> StyleElements] : n \in 0..MaxStyles }

\* ------------------------------------------------------------- state
VARIABLES
    pc,          \* where each request is in the request lifecycle
    req,         \* the request's headers and body
    docLocation, \* req.conversionResults.docLocation (NoLocation: not set)
    convBody,    \* req.conversionResults.body
    reply,       \* status code, content type and payload of the reply
    err,         \* the error being handled
    errored,     \* the reply's error handlers have run
    runs,        \* how many times the onSend hook started a cleanup
    pending,     \* unlinks issued by the onSend hook and not yet finished
    failed,      \* the Promise.all of the hook's current run has rejected
    aborted,     \* the client has closed the connection
    fs,          \* the paths in the temp directory
    usedIds,     \* ids randomUUID has handed out
    stages,      \* the pipeline stages the request has finished, in order
    createdBy,   \* <<path, request>>: who wrote the path
    removedBy,   \* <<request, path>>: whose cleanup unlinked the path
    extRemoves,  \* removals by something other than a request's cleanup
    convErr,     \* what the converter threw for the request (<<>>: nothing)
    html,        \* the document tidyCss is run on: its style elements in order
    options,     \* the options tidyCss is run with
    tidied,      \* what each run of tidyCss on the document returned, in order
    plugin,      \* the plugin is registering, ready, or failed to register
    tempDir,     \* the temp directory is missing, exists, or cannot be created
    mkdirErr     \* the code of the error fs.mkdir threw ("none": it created)

requestVars == << pc, req, docLocation, convBody, reply, err, errored, runs, pending,
                  failed, aborted, fs, usedIds, stages, createdBy, removedBy, extRemoves,
                  convErr >>
cssVars == << html, options, tidied >>
pluginVars == << plugin, tempDir, mkdirErr >>
vars == << requestVars, cssVars, pluginVars >>

NoRequest == [accept |-> {}, contentType |-> "", body |-> <<>>]
NoReply == [statusCode |-> 200, type |-> "", payload |-> <<>>]

\* No document is being tidied
NoDocument ==
    /\ html = <<>>
    /\ options = NoOptions
    /\ tidied = <<>>

\* The plugin has registered and its temp directory is there
Registered ==
    /\ plugin = "ready"
    /\ tempDir = "exists"
    /\ mkdirErr = "none"

Init ==
    /\ NoDocument
    /\ Registered
    /\ pc = [r \in Reqs |-> "new"]
    /\ req = [r \in Reqs |-> NoRequest]
    /\ docLocation = [r \in Reqs |-> NoLocation]
    /\ convBody = [r \in Reqs |-> "undefined"]
    /\ reply = [r \in Reqs |-> NoReply]
    /\ err = [r \in Reqs |-> NoError]
    /\ errored = [r \in Reqs |-> FALSE]
    /\ runs = [r \in Reqs |-> 0]
    /\ pending = [r \in Reqs |-> {}]
    /\ failed = [r \in Reqs |-> FALSE]
    /\ aborted = [r \in Reqs |-> FALSE]
    /\ fs = {}
    /\ usedIds = {}
    /\ stages = [r \in Reqs |-> <<>>]
    /\ createdBy = {}
    /\ removedBy = {}
    /\ extRemoves = 0
    /\ convErr = [r \in Reqs |-> <<>>]

\* The request's staged file has been written
Staged(r) == <<docLocation[r].rtf, r>> \in createdBy
\* The paths of the temp directory that carry the request's id
FilesOf(r) ==
    IF docLocation[r] = NoLocation THEN {}
    ELSE { f \in fs : IsPrefix(directory \o docLocation[r].id, f) }


\* ------------------------------------------------------------- the request lifecycle
\* An async hook or handler of request r throws e: the reply is sent as an error
Raise(r, e) ==
    /\ err' = [err EXCEPT ![r] = e]
    /\ pc' = [pc EXCEPT ![r] = "error"]
    /\ stages' = [stages EXCEPT ![r] = Append(@, "fail")]

\* The request arrives and the onRequest hooks run: the plugin's, which creates
\* req.conversionResults, then the route's, which checks the Accept header.
OnRequest(r) ==
    /\ UNCHANGED << cssVars, pluginVars >>
    /\ plugin = "ready"
    /\ pc[r] = "new"
    /\ \E a \in AcceptHeaders, c \in ContentTypes, b \in Bodies :
        /\ req' = [req EXCEPT ![r] = [accept |-> a, contentType |-> c, body |-> b]]
        /\ IF ~AcceptsType(a, accepts)
           THEN Raise(r, HttpError(406, <<"Not", "Acceptable">>))
           ELSE /\ pc' = [pc EXCEPT ![r] = "parse"]
                /\ UNCHANGED << err, stages >>
    /\ UNCHANGED << docLocation, convBody, reply, errored, runs, pending, failed,
                    aborted, fs, usedIds, createdBy, removedBy, extRemoves, convErr >>

\* The body is parsed: only application/rtf has a parser, and the parser
\* rejects a buffer that does not carry the RTF signature.
ContentTypeParser(r) ==
    /\ UNCHANGED << cssVars, pluginVars >>
    /\ pc[r] = "parse"
    /\ IF req[r].contentType # "application/rtf"
       THEN Raise(r, InvalidMediaType(req[r].contentType))
       ELSE IF fromBuffer(req[r].body) # "application/rtf"
       THEN Raise(r, HttpError(415, <<"Unsupported", "Media", "Type">>))
       ELSE /\ pc' = [pc EXCEPT ![r] = "preHandler"]
            /\ stages' = [stages EXCEPT ![r] = Append(@, "sniff")]
            /\ UNCHANGED err
    /\ UNCHANGED << req, docLocation, convBody, reply, errored, runs, pending, failed,
                    aborted, fs, usedIds, createdBy, removedBy, extRemoves, convErr >>

\* preHandler, up to its first await: a fresh id, docLocation recorded, the
\* write of the temp file issued.
PreHandler(r) ==
    /\ UNCHANGED << cssVars, pluginVars >>
    /\ pc[r] = "preHandler"
    /\ LET id == randomUUID(usedIds) IN
        /\ usedIds' = usedIds \cup {id}
        /\ docLocation' = [docLocation EXCEPT ![r] = DocLocation(id)]
    /\ pc' = [pc EXCEPT ![r] = "writing"]
    /\ UNCHANGED << req, convBody, reply, err, errored, runs, pending, failed,
                    aborted, fs, stages, createdBy, removedBy, extRemoves, convErr >>

\* await fs.writeFile(tempFile, req.body): the file is there, or the write fails
WriteFile(r) ==
    /\ UNCHANGED << cssVars, pluginVars >>
    /\ pc[r] = "writing"
    /\ \/ /\ fs' = fs \cup {docLocation[r].rtf}
          /\ createdBy' = createdBy \cup {<<docLocation[r].rtf, r>>}
          /\ pc' = [pc EXCEPT ![r] = "converting"]
          /\ stages' = [stages EXCEPT ![r] = Append(@, "stage")]
          /\ UNCHANGED err
       \/ /\ Raise(r, PlainError(<<"Error:", "ENOSPC">>))
          /\ UNCHANGED << fs, createdBy >>
    /\ UNCHANGED << req, docLocation, convBody, reply, errored, runs, pending, failed,
                    aborted, usedIds, removedBy, extRemoves, convErr >>

\* The catch block around the conversion: a malformed file is the client's
\* fault (400), anything else is rethrown
ConvertCatchSwallows(r, e) ==
    /\ pc' = [pc EXCEPT ![r] = "handler"]
    /\ UNCHANGED << err, stages >>
ConvertCatch(r, e) ==
    IF IsNotMediaType(e)
    THEN Raise(r, HttpError(400, <<"Bad", "Request">>))
    ELSE Raise(r, PlainError(e))

\* await unrtf.convert(tempFile, ...) in its try/catch, then res.type("text/html").
\* The converter may leave files next to the staged one, named after it.
Convert(r) ==
    /\ UNCHANGED << cssVars, pluginVars >>
    /\ pc[r] = "converting"
    /\ \/ \E n \in 0..MaxSidecars :
            LET made == { Sidecar(docLocation[r].id, k) : k \in 1..n } IN
            /\ fs' = fs \cup made
            /\ createdBy' = createdBy \cup { <<f, r>> : f \in made }
            /\ convBody' = [convBody EXCEPT ![r] = "html"]
            /\ reply' = [reply EXCEPT ![r].type = "text/html"]
            /\ pc' = [pc EXCEPT ![r] = "handler"]
            /\ stages' = [stages EXCEPT ![r] = Append(@, "convert")]
            /\ UNCHANGED << err, convErr >>
       \/ \E e \in ConverterErrors :
            /\ convErr' = [convErr EXCEPT ![r] = e]
            /\ ConvertCatch(r, e)
            /\ UNCHANGED << fs, createdBy, convBody, reply >>
    /\ UNCHANGED << req, docLocation, errored, runs, pending, failed,
                    aborted, usedIds, removedBy, extRemoves >>

\* The route's handler, up to its await: server.tidyHtml(body, ...)
HandlerTidyHtml(r) ==
    /\ UNCHANGED << cssVars, pluginVars >>
    /\ pc[r] = "handler"
    /\ \/ /\ pc' = [pc EXCEPT ![r] = "tidyCss"]
          /\ stages' = [stages EXCEPT ![r] = Append(@, "tidyHtml")]
          /\ UNCHANGED err
       \/ Raise(r, PlainError(<<"TypeError:", "tidyHtml">>))
    /\ UNCHANGED << req, docLocation, convBody, reply, errored, runs, pending, failed,
                    aborted, fs, usedIds, createdBy, removedBy, extRemoves, convErr >>

\* The rest of the handler: return server.tidyCss(tidiedHtml, ...); the value
\* returned is sent as the reply
HandlerTidyCss(r) ==
    /\ UNCHANGED << cssVars, pluginVars >>
    /\ pc[r] = "tidyCss"
    /\ reply' = [reply EXCEPT ![r].payload = <<"html">>]
    /\ pc' = [pc EXCEPT ![r] = "onSend"]
    /\ stages' = [stages EXCEPT ![r] = Append(@, "tidyCss")]
    /\ UNCHANGED << req, docLocation, convBody, err, errored, runs, pending, failed,
                    aborted, fs, usedIds, createdBy, removedBy, extRemoves, convErr >>

\* The server's error handler: a server fault is answered by a bare 500, any
\* other error is rethrown and sent with its own status and message.
IsServerFaultAlso503(e, res) ==
    \/ e.statusCode >= 500
    \/ res.statusCode = 200 /\ e.statusCode = 0
IsServerFault(e, res) ==
    \/ e.statusCode >= 500 /\ e.statusCode # 503
    \/ res.statusCode = 200 /\ e.statusCode = 0

ErrorHandler(r) ==
    /\ UNCHANGED << cssVars, pluginVars >>
    /\ pc[r] = "error"
    /\ reply' = [reply EXCEPT ![r] =
          IF IsServerFault(err[r], reply[r])
          THEN [statusCode |-> 500, type |-> "application/json",
                payload |-> <<"Internal", "Server", "Error">>]
          ELSE [statusCode |-> err[r].statusCode, type |-> "application/json",
                payload |-> err[r].message]]
    /\ errored' = [errored EXCEPT ![r] = TRUE]
    /\ pc' = [pc EXCEPT ![r] = "onSend"]
    /\ UNCHANGED << req, docLocation, convBody, err, runs, pending, failed,
                    aborted, fs, usedIds, stages, createdBy, removedBy, extRemoves, convErr >>


\* ------------------------------------------------------------- the onSend hook
\* if (req?.conversionResults?.docLocation)
CleanupOnSuccessOnly(r) == docLocation[r] # NoLocation /\ reply[r].statusCode = 200
CleanupUnlessAborted(r) == docLocation[r] # NoLocation /\ ~aborted[r]
CleanupAlways(r) == TRUE
CleanupWanted(r) == docLocation[r] # NoLocation

FileGone == <<"Error:", "ENOENT">>

\* The hook up to its await: glob.sync(...) and one fs.unlink per file found
OnSend(r) ==
    /\ UNCHANGED << cssVars, pluginVars >>
    /\ pc[r] = "onSend"
    /\ IF CleanupWanted(r)
       THEN /\ runs' = [runs EXCEPT ![r] = @ + 1]
            /\ pending' = [pending EXCEPT ![r] =
                  @ \cup { <<runs[r] + 1, f>> : f \in Glob(docLocation[r], fs) }]
       ELSE UNCHANGED << runs, pending >>
    /\ failed' = [failed EXCEPT ![r] = FALSE]
    /\ pc' = [pc EXCEPT ![r] = "unlinking"]
    /\ UNCHANGED << req, docLocation, convBody, reply, err, errored,
                    aborted, fs, usedIds, stages, createdBy, removedBy, extRemoves, convErr >>

\* One fs.unlink finishes: the file is removed, or it was no longer there and
\* the unlink rejects, which rejects the Promise.all the hook awaits.
Unlink(r) ==
    /\ UNCHANGED << cssVars, pluginVars >>
    /\ \E u \in pending[r] :
        /\ pending' = [pending EXCEPT ![r] = @ \ {u}]
        /\ IF u[2] \in fs
           THEN /\ fs' = fs \ {u[2]}
                /\ removedBy' = removedBy \cup {<<r, u[2]>>}
                /\ UNCHANGED failed
           ELSE /\ failed' = [failed EXCEPT ![r] =
                      @ \/ (u[1] = runs[r] /\ pc[r] = "unlinking")]
                /\ UNCHANGED << fs, removedBy >>
    /\ UNCHANGED << pc, req, docLocation, convBody, reply, err, errored, runs,
                    aborted, usedIds, stages, createdBy, extRemoves, convErr >>

\* The unlinks the hook's current run still waits for
Awaited(r) == { u \in pending[r] : u[1] = runs[r] }

\* The hook's await ends.  Fulfilled: it returns the payload, which is handed to
\* the socket.  Rejected: the hook throws; a reply that was not an error reply
\* goes to the error handler and is sent again, an error reply is written as it
\* is with the new error's message.
OnSendSettle(r) ==
    /\ UNCHANGED << cssVars, pluginVars >>
    /\ pc[r] = "unlinking"
    /\ failed[r] \/ Awaited(r) = {}
    /\ IF ~failed[r]
       THEN /\ pc' = [pc EXCEPT ![r] = "done"]
            /\ stages' = [stages EXCEPT ![r] =
                  IF reply[r].statusCode = 200 THEN Append(@, "send") ELSE @]
            /\ UNCHANGED << reply, err >>
       ELSE IF errored[r]
       THEN /\ pc' = [pc EXCEPT ![r] = "done"]
            /\ reply' = [reply EXCEPT ![r].payload = FileGone]
            /\ UNCHANGED << err, stages >>
       ELSE /\ Raise(r, PlainError(FileGone))
            /\ UNCHANGED reply
    /\ UNCHANGED << req, docLocation, convBody, errored, runs, pending, failed,
                    aborted, fs, usedIds, createdBy, removedBy, extRemoves, convErr >>

\* ------------------------------------------------------------- the environment
\* The client closes the connection after its file was staged and before the
\* reply is sent; the hooks and the handler of the request run on.  (Before
\* staging there is nothing a hook could leave behind.)
Abort(r) ==
    /\ UNCHANGED << cssVars, pluginVars >>
    /\ pc[r] \notin {"new", "done"}
    /\ Staged(r)
    /\ ~aborted[r]
    /\ aborted' = [aborted EXCEPT ![r] = TRUE]
    /\ UNCHANGED << pc, req, docLocation, convBody, reply, err, errored, runs, pending,
                    failed, fs, usedIds, stages, createdBy, removedBy, extRemoves, convErr >>

\* Something else removes a file of the temp directory (the tests remove the
\* directory while the server closes)
ExternalRemove ==
    /\ UNCHANGED << cssVars, pluginVars >>
    /\ extRemoves < MaxExternalRemoves
    /\ \E f \in fs : fs' = fs \ {f}
    /\ extRemoves' = extRemoves + 1
    /\ UNCHANGED << pc, req, docLocation, convBody, reply, err, errored, runs, pending,
                    failed, aborted, usedIds, stages, createdBy, removedBy, convErr >>

Next ==
    \/ \E r \in Reqs : OnRequest(r)
    \/ \E r \in Reqs : ContentTypeParser(r)
    \/ \E r \in Reqs : PreHandler(r)
    \/ \E r \in Reqs : WriteFile(r)
    \/ \E r \in Reqs : Convert(r)
    \/ \E r \in Reqs : HandlerTidyHtml(r)
    \/ \E r \in Reqs : HandlerTidyCss(r)
    \/ \E r \in Reqs : ErrorHandler(r)
    \/ \E r \in Reqs : OnSend(r)
    \/ \E r \in Reqs : Unlink(r)
    \/ \E r \in Reqs : OnSendSettle(r)
    \/ \E r \in Reqs : Abort(r)
    \/ ExternalRemove

Spec == Init /\ [][Next]_vars

\* Node's event loop runs every callback that is ready
FairSpec == Spec /\ WF_vars(Next)

\* The same, except that the converter's process need not ever exit: the
\* callback of unrtf.convert is ready only once it has
EventLoop ==
    \/ \E r \in Reqs : OnRequest(r)
    \/ \E r \in Reqs : ContentTypeParser(r)
    \/ \E r \in Reqs : PreHandler(r)
    \/ \E r \in Reqs : WriteFile(r)
    \/ \E r \in Reqs : HandlerTidyHtml(r)
    \/ \E r \in Reqs : HandlerTidyCss(r)
    \/ \E r \in Reqs : ErrorHandler(r)
    \/ \E r \in Reqs : OnSend(r)
    \/ \E r \in Reqs : Unlink(r)
    \/ \E r \in Reqs : OnSendSettle(r)
    \/ \E r \in Reqs : Abort(r)
    \/ ExternalRemove
FairSpecConverterMayHang == Spec /\ WF_vars(EventLoop)

\* ------------------------------------------------ the plugin's registration
\* The plugin creates its temp directory when it registers.  fs.mkdir
\* creates a missing directory, throws EEXIST for one that is there and
\* another error (EACCES) for one it cannot create; only EEXIST is ignored.
\* The server takes requests only when its plugins have registered.
IgnoredAny(code) == TRUE
Ignored(code) == code = "EEXIST"

mkdir(dir) ==
    CASE dir = "missing" -> "none"
      [] dir = "exists" -> "EEXIST"
      [] OTHER -> "EACCES"

Plugin ==
    /\ plugin = "registering"
    /\ mkdirErr' = mkdir(tempDir)
    /\ tempDir' = IF tempDir = "missing" THEN "exists" ELSE tempDir
    /\ plugin' = IF mkdir(tempDir) = "none" \/ Ignored(mkdir(tempDir))
                  THEN "ready" ELSE "failed"
    /\ UNCHANGED << requestVars, cssVars >>

InitPlugin ==
    /\ NoDocument
    /\ plugin = "registering"
    /\ tempDir \in {"missing", "exists", "denied"}
    /\ mkdirErr = "none"
    /\ pc = [r \in Reqs |-> "new"]
    /\ req = [r \in Reqs |-> NoRequest]
    /\ docLocation = [r \in Reqs |-> NoLocation]
    /\ convBody = [r \in Reqs |-> "undefined"]
    /\ reply = [r \in Reqs |-> NoReply]
    /\ err = [r \in Reqs |-> NoError]
    /\ errored = [r \in Reqs |-> FALSE]
    /\ runs = [r \in Reqs |-> 0]
    /\ pending = [r \in Reqs |-> {}]
    /\ failed = [r \in Reqs |-> FALSE]
    /\ aborted = [r \in Reqs |-> FALSE]
    /\ fs = {}
    /\ usedIds = {}
    /\ stages = [r \in Reqs |-> <<>>]
    /\ createdBy = {}
    /\ removedBy = {}
    /\ extRemoves = 0
    /\ convErr = [r \in Reqs |-> <<>>]

\* One request after the registration shows whether anything is staged
NextPlugin ==
    \/ Plugin
    \/ OnRequest(1)
    \/ ContentTypeParser(1)
    \/ PreHandler(1)
    \/ WriteFile(1)
    \/ Convert(1)
    \/ HandlerTidyHtml(1)
    \/ HandlerTidyCss(1)
    \/ ErrorHandler(1)
    \/ OnSend(1)
    \/ Unlink(1)
    \/ OnSendSettle(1)
    \/ Abort(1)
    \/ ExternalRemove

SpecPlugin == InitPlugin /\ [][NextPlugin]_vars

\* ------------------------------------------------ the error handler by itself
\* setErrorHandler decides on err.statusCode alone, so it is run on one error
\* of every kind: thrown without a status code (0), client faults, the 503 of
\* an overloaded server and other server faults.
ErrorStatusCodes == {0, 400, 415, 429, 500, 501, 503, 504}
ErrorMessages == { <<"ENOENT:", "spawn", "unrtf">>, <<"Service", "Unavailable">> }
ErrorInputs == { [statusCode |-> c, message |-> m] : c \in ErrorStatusCodes, m \in ErrorMessages }

InitErrorHandler ==
    /\ NoDocument
    /\ Registered
    /\ pc = [r \in Reqs |-> "error"]
    /\ err \in [Reqs -> ErrorInputs]
    /\ req = [r \in Reqs |-> NoRequest]
    /\ docLocation = [r \in Reqs |-> NoLocation]
    /\ convBody = [r \in Reqs |-> "undefined"]
    /\ reply = [r \in Reqs |-> NoReply]
    /\ errored = [r \in Reqs |-> FALSE]
    /\ runs = [r \in Reqs |-> 0]
    /\ pending = [r \in Reqs |-> {}]
    /\ failed = [r \in Reqs |-> FALSE]
    /\ aborted = [r \in Reqs |-> FALSE]
    /\ fs = {}
    /\ usedIds = {}
    /\ stages = [r \in Reqs |-> <<"fail">>]
    /\ createdBy = {}
    /\ removedBy = {}
    /\ extRemoves = 0
    /\ convErr = [r \in Reqs |-> <<>>]

NextErrorHandler ==
    \/ \E r \in Reqs : ErrorHandler(r)
    \/ \E r \in Reqs : OnSend(r)
    \/ \E r \in Reqs : OnSendSettle(r)

SpecErrorHandler == InitErrorHandler /\ [][NextErrorHandler]_vars

\* ------------------------------------------------------- tidyCss by itself
\* tidyCss is run on a document and run again on what it returned, with the
\* same options.
InitCss ==
    /\ Registered
    /\ html \in Documents
    /\ options \in Options
    /\ tidied = <<>>
    /\ pc = [r \in Reqs |-> "new"]
    /\ req = [r \in Reqs |-> NoRequest]
    /\ docLocation = [r \in Reqs |-> NoLocation]
    /\ convBody = [r \in Reqs |-> "undefined"]
    /\ reply = [r \in Reqs |-> NoReply]
    /\ err = [r \in Reqs |-> NoError]
    /\ errored = [r \in Reqs |-> FALSE]
    /\ runs = [r \in Reqs |-> 0]
    /\ pending = [r \in Reqs |-> {}]
    /\ failed = [r \in Reqs |-> FALSE]
    /\ aborted = [r \in Reqs |-> FALSE]
    /\ fs = {}
    /\ usedIds = {}
    /\ stages = [r \in Reqs |-> <<>>]
    /\ createdBy = {}
    /\ removedBy = {}
    /\ extRemoves = 0
    /\ convErr = [r \in Reqs |-> <<>>]

TidyCss ==
    /\ Len(tidied) < MaxPasses
    /\ tidied' = Append(tidied,
          tidyCss(IF tidied = <<>> THEN html ELSE tidied[Len(tidied)].html, options))
    /\ UNCHANGED << html, options >>
    /\ UNCHANGED << requestVars, pluginVars >>

NextCss == TidyCss

SpecCss == InitCss /\ [][NextCss]_vars


\* ------------------------------------------------------------- properties
Done(r) == pc[r] = "done"
RemovedBy(r) == { x \in removedBy : x[1] = r }
CreatedBy(r) == { x \in createdBy : x[2] = r }

\* C1: a request answered 200 leaves, once its reply is sent, no file in the
\* temp directory whose name starts with its id.
CleanupCompleteness ==
    \A r \in Reqs :
        (Done(r) /\ reply[r].statusCode = 200) => FilesOf(r) = {}

\* a 200 whose staged file and converter sidecar were both unlinked by its cleanup
CleanupCompletenessWitness ==
    \E r \in Reqs :
        /\ Done(r) /\ reply[r].statusCode = 200
        /\ Cardinality(RemovedBy(r)) >= 2

\* C2: a request that was staged and then failed (400 or a server error) has had
\* its cleanup run, and every file carrying its id is removed or has its unlink
\* in flight; with no unlink left none of its files remains.
CleanupOnFailure ==
    \A r \in Reqs :
        (Done(r) /\ Staged(r) /\ reply[r].statusCode >= 400) =>
            /\ runs[r] >= 1
            /\ FilesOf(r) \subseteq { u[2] : u \in pending[r] }
            /\ pending[r] = {} => FilesOf(r) = {}

\* a 400 and a 500, both staged, both cleaned
CleanupOnFailureWitness ==
    \E r1, r2 \in Reqs :
        /\ Done(r1) /\ reply[r1].statusCode = 400 /\ <<r1, docLocation[r1].rtf>> \in removedBy
        /\ Done(r2) /\ reply[r2].statusCode = 500 /\ <<r2, docLocation[r2].rtf>> \in removedBy

\* C3: the cleanup of a staged request runs exactly once, also when the cleanup
\* itself raises an error.
CleanupExactlyOnce ==
    \A r \in Reqs :
        /\ runs[r] <= 1
        /\ (Done(r) /\ docLocation[r] # NoLocation) => runs[r] = 1

SniffRejectsAlways ==
    \A r \in Reqs :
        (Done(r) /\ req[r].contentType = "application/rtf"
            /\ ~IsPrefix(RtfMagic, req[r].body)) => reply[r].statusCode = 415

\* C5, amended: an application/rtf request whose body is empty or lacks the RTF
\* signature is never staged or converted, and is answered 415 when its Accept
\* header admits text/html (406 otherwise).
SniffRejects ==
    \A r \in Reqs :
        (pc[r] # "new" /\ req[r].contentType = "application/rtf"
            /\ ~IsPrefix(RtfMagic, req[r].body)) =>
            /\ docLocation[r] = NoLocation
            /\ CreatedBy(r) = {}
            /\ convBody[r] = "undefined" /\ convErr[r] = <<>>
            /\ pc[r] \in {"parse", "error", "onSend", "unlinking", "done"}
            /\ Done(r) =>
                reply[r].statusCode =
                    IF AcceptsType(req[r].accept, accepts) THEN 415 ELSE 406

\* a truncated signature and an empty body, both answered 415
SniffRejectsWitness ==
    \E r1, r2 \in Reqs :
        /\ Done(r1) /\ req[r1].body = <<>> /\ reply[r1].statusCode = 415
        /\ Done(r2) /\ req[r2].body = SubSeq(RtfMagic, 1, 4) /\ reply[r2].statusCode = 415
        /\ req[r1].contentType = "application/rtf"
        /\ req[r2].contentType = "application/rtf"

\* C6: no two requests stage to the same path, and a request's cleanup neither
\* matches nor deletes a file another request wrote.
Isolation ==
    /\ \A r1, r2 \in Reqs :
        (r1 # r2 /\ docLocation[r1] # NoLocation /\ docLocation[r2] # NoLocation) =>
            /\ docLocation[r1].id # docLocation[r2].id
            /\ docLocation[r1].rtf # docLocation[r2].rtf
    /\ \A r \in Reqs : \A c \in createdBy :
        /\ (\E u \in pending[r] : u[2] = c[1]) => c[2] = r
        /\ <<r, c[1]>> \in removedBy => c[2] = r

\* one request's cleanup has unlinked its file while the other's is still staged
IsolationWitness ==
    \E r1, r2 \in Reqs :
        /\ r1 # r2
        /\ <<r1, docLocation[r1].rtf>> \in removedBy
        /\ Staged(r2) /\ docLocation[r2].rtf \in fs

\* C7: the stages of a request finish in pipeline order, none skipped, none
\* after a failure; a stage is under way only when all before it have finished,
\* and a 200 has gone through all of them.
Pipeline == <<"sniff", "stage", "convert", "tidyHtml", "tidyCss", "send">>
StageOrder ==
    \A r \in Reqs :
        LET s == stages[r] IN
        /\ \/ IsPrefix(s, Pipeline)
           \/ /\ s # <<>> /\ s[Len(s)] = "fail"
              /\ IsPrefix(SubSeq(s, 1, Len(s) - 1), Pipeline)
        /\ pc[r] = "preHandler" => s = SubSeq(Pipeline, 1, 1)
        /\ pc[r] = "writing" => s = SubSeq(Pipeline, 1, 1)
        /\ pc[r] = "converting" => s = SubSeq(Pipeline, 1, 2)
        /\ pc[r] = "handler" => s = SubSeq(Pipeline, 1, 3)
        /\ pc[r] = "tidyCss" => s = SubSeq(Pipeline, 1, 4)
        /\ (Done(r) /\ reply[r].statusCode = 200) => s = Pipeline

\* one request went through the whole pipeline, the other failed in conversion
StageOrderWitness ==
    \E r1, r2 \in Reqs :
        /\ Done(r1) /\ stages[r1] = Pipeline
        /\ Done(r2) /\ stages[r2] = <<"sniff", "stage", "fail">>

\* C8: a request's files are deleted only after its reply was handed off.
DeletionAfterHandoff ==
    \A x \in removedBy : Done(x[1])

\* C9: a cleanup that finds a matched file already gone does not raise.
ToleratesMissingFile ==
    \A r \in Reqs : ~failed[r]

\* C10: a request whose conversion failed is never converted, tidied or
\* answered 200; it is answered 400 when the converter's error says the file
\* is not the correct media type, and 500 otherwise.
ConverterFailure ==
    \A r \in Reqs :
        convErr[r] # <<>> =>
            /\ convBody[r] = "undefined"
            /\ stages[r] = <<"sniff", "stage", "fail">>
            /\ pc[r] \in {"error", "onSend", "unlinking", "done"}
            /\ pc[r] # "error" =>
                reply[r].statusCode =
                    IF Contains(convErr[r], NotMediaType) THEN 400 ELSE 500

\* both kinds of converter failure, answered 400 and 500
ConverterFailureWitness ==
    \E r1, r2 \in Reqs :
        /\ Done(r1) /\ Contains(convErr[r1], NotMediaType) /\ reply[r1].statusCode = 400
        /\ Done(r2) /\ convErr[r2] = <<"Error:", "spawn", "unrtf", "ENOENT">>
        /\ reply[r2].statusCode = 500

\* ------------------------------------------------------------------ C11
\* C11: an error with a status code of 500 or more other than 503, or with no
\* status code, is answered with status 500 and the fixed text "Internal
\* Server Error", which holds nothing of the error's own message; an error
\* with a 4xx status code or 503 is answered with its own status code.
GenericReply == <<"Internal", "Server", "Error">>
ServerFaultsAreGeneric ==
    \A r \in Reqs : Done(r) =>
        LET e == err[r] IN
        IF (e.statusCode >= 500 /\ e.statusCode # 503) \/ e.statusCode = 0
        THEN /\ reply[r].statusCode = 500
             /\ reply[r].payload = GenericReply
             /\ \A i \in 1..Len(e.message) : ~Contains(reply[r].payload, <<e.message[i]>>)
        ELSE /\ reply[r].statusCode = e.statusCode
             /\ (e.statusCode \in 400..499 \/ e.statusCode = 503)
ServerFaultsAreGenericWitness ==
    /\ Done(1) /\ err[1].statusCode = 0 /\ reply[1].statusCode = 500
    /\ Done(2) /\ err[2].statusCode = 503 /\ reply[2].statusCode = 503
    /\ reply[2].payload = err[2].message

\* ------------------------------------------------------------------ C12
\* C12: a request whose Accept header does not admit text/html is answered 406
\* from the onRequest step: its body is never sniffed, nothing is staged,
\* converted or tidied for it, whatever its body and Content-Type are.
NotAcceptableFirst ==
    \A r \in Reqs : (pc[r] # "new" /\ "text/html" \notin req[r].accept) =>
        /\ stages[r] = <<"fail">>
        /\ docLocation[r] = NoLocation
        /\ convBody[r] = "undefined"
        /\ CreatedBy(r) = {}
        /\ pc[r] \in {"error", "onSend", "unlinking", "done"}
        /\ err[r].statusCode = 406
        /\ pc[r] # "error" => reply[r].statusCode = 406
NotAcceptableFirstWitness ==
    \E r \in Reqs :
        /\ Done(r) /\ "text/html" \notin req[r].accept
        /\ req[r].contentType = "application/rtf"
        /\ fromBuffer(req[r].body) # "application/rtf"
        /\ reply[r].statusCode = 406

\* ------------------------------------------------------------------ C13
\* C13 as stated: every request whose Content-Type is not application/rtf is
\* answered 415 with a message that names the declared type.
DeclaredTypeNamedAlways ==
    \A r \in Reqs : (Done(r) /\ req[r].contentType # "application/rtf") =>
        /\ reply[r].statusCode = 415
        /\ Contains(reply[r].payload, <<req[r].contentType>>)
\* C13: a request whose Content-Type is not application/rtf is never staged
\* or converted; when its Accept header admits text/html it is answered 415
\* with a message that names the declared type, and 406 otherwise.
DeclaredTypeNamed ==
    \A r \in Reqs : (pc[r] # "new" /\ req[r].contentType # "application/rtf") =>
        /\ docLocation[r] = NoLocation
        /\ CreatedBy(r) = {}
        /\ convBody[r] = "undefined"
        /\ "stage" \notin { stages[r][i] : i \in 1..Len(stages[r]) }
        /\ Done(r) =>
              IF "text/html" \in req[r].accept
              THEN /\ reply[r].statusCode = 415
                   /\ Contains(reply[r].payload, <<req[r].contentType>>)
              ELSE reply[r].statusCode = 406
DeclaredTypeNamedWitness ==
    \E r \in Reqs :
        /\ Done(r) /\ req[r].contentType = "application/html"
        /\ "text/html" \in req[r].accept
        /\ reply[r].statusCode = 415
        /\ reply[r].payload = <<"Unsupported", "Media", "Type:", "application/html">>

\* ------------------------------------------------------------------ C14
\* C14: running tidyCss on its own output with the same options returns that
\* output unchanged.
Idempotent ==
    Len(tidied) >= 2 => tidied[2].html = tidied[1].html

\* ------------------------------------------------------------------ C15
\* The rules of the document's style elements, last element first
RECURSIVE RulesOf(_)
RulesOf(doc) ==
    IF doc = <<>> THEN <<>>
    ELSE RulesOf(SubSeq(doc, 1, Len(doc) - 1)) \o doc[Len(doc)].rules
\* C15: the document returned for a document with one or more style elements
\* has exactly one style element, in the head; its rules are the rules of all
\* the original elements in document order, and a div rule of the original is
\* the rule that carries page-break-inside: avoid (no rule is added for it).
MergedIntoOne ==
    (Len(html) >= 1 /\ tidied # <<>>) =>
        LET out == tidied[1].html
            orig == RulesOf(html)
        IN /\ Len(out) = 1
           /\ out[1].where = "head"
           /\ Len(out[1].rules) = Len(orig)
           /\ \A i \in 1..Len(orig) :
                 /\ out[1].rules[i].selectorText = orig[i].selectorText
                 /\ out[1].rules[i].style["color"] = orig[i].style["color"]
                 /\ orig[i].selectorText = DivSelector =>
                       out[1].rules[i].style["page-break-inside"] = Avoid
MergedIntoOneWitness ==
    /\ Len(html) = 2 /\ html[1].where = "body" /\ html[2].where = "head"
    /\ Len(html[1].rules) = 2 /\ html[1].rules[1].selectorText = DivSelector
    /\ tidied # <<>>
    /\ Len(tidied[1].html) = 1
    /\ Len(tidied[1].html[1].rules) = 2 + Len(html[2].rules)
    /\ tidied[1].html[1].rules[1].style["page-break-inside"] = Avoid

\* ------------------------------------------------------------------ C16
\* HTML reads the name of an end tag in either case
toLowerCase(s) ==
    [i \in 1..Len(s) |->
        CASE s[i] = "S" -> "s" [] s[i] = "T" -> "t" [] s[i] = "Y" -> "y"
          [] s[i] = "L" -> "l" [] s[i] = "E" -> "e" [] OTHER -> s[i]]
\* C16: no font-family value of the document tidyCss returns contains the
\* sequence that closes a style element, whatever the document's values and
\* the fonts option are.
NoStyleClose ==
    \A k \in 1..Len(tidied) : \A i \in 1..Len(tidied[k].html[1].rules) :
        ~Contains(toLowerCase(tidied[k].html[1].rules[i].style["font-family"]), StyleClose)

\* ------------------------------------------------------------------ C17
\* The name is written between double quotes
IsQuoted(font) == Len(font) >= 2 /\ font[1] = "\"" /\ font[Len(font)] = "\""
\* The names of a font-family value, without the white space around them
FontNames(value) == [j \in 1..Len(split(value)) |-> trim(split(value)[j])]
\* C17: a name of a rule's font-family value that is already between double
\* quotes is the same name, quotes included, in the value tidyCss sets.
AlreadyQuotedUnchanged ==
    tidied # <<>> =>
        \A i \in 1..Len(tidied[1].cssRules) :
            LET before == FontNames(tidied[1].replaced[i].style["font-family"])
                after == FontNames(tidied[1].styleObj[i].style["font-family"])
            IN Declares(tidied[1].replaced[i], "font-family") =>
                  /\ Len(after) = Len(before)
                  /\ \A j \in 1..Len(before) : IsQuoted(before[j]) => after[j] = before[j]

\* ------------------------------------------------------------------ C18
\* The text an escaped text stands for: a backslash gives the character after it
RECURSIVE Unescape(_)
Unescape(s) ==
    IF s = <<>> THEN <<>>
    ELSE IF s[1] = "\\" /\ Len(s) >= 2 THEN <<s[2]>> \o Unescape(Drop(s, 2))
    ELSE <<s[1]>> \o Unescape(Tail(s))
\* How many characters of the text need a backslash
Escapes(s) == Cardinality({ i \in 1..Len(s) : s[i] \in {"\\", "\""} })
\* The names emitted for a value: the pieces between its commas, each but the
\* first without the one space that follows the comma
Emitted(value) ==
    [j \in 1..Len(split(value)) |->
        IF j = 1 THEN split(value)[j] ELSE Tail(split(value)[j])]
\* C18: the value set on a rule that declares font-family has one name for
\* every comma-separated name of the value it had, in the same order, with a
\* comma and one space between them; a name whose trimmed form has a character
\* outside [A-Za-z-] is emitted escaped between double quotes, any other name
\* is emitted trimmed and otherwise unchanged.
FontNamesQuoted ==
    tidied # <<>> =>
        \A i \in 1..Len(tidied[1].cssRules) :
            Declares(tidied[1].replaced[i], "font-family") =>
                LET fonts == split(tidied[1].replaced[i].style["font-family"])
                    value == tidied[1].styleObj[i].style["font-family"]
                    names == Emitted(value)
                IN /\ Len(names) = Len(fonts)
                   /\ \A j \in 2..Len(names) : split(value)[j][1] = " "
                   /\ \A j \in 1..Len(fonts) :
                         IF \E c \in 1..Len(trim(fonts[j])) :
                                trim(fonts[j])[c] \notin Letters \cup {"-"}
                         THEN LET inner == SubSeq(names[j], 2, Len(names[j]) - 1)
                                  name == trim(replaceStyleClose(fonts[j]))
                              IN /\ IsQuoted(names[j])
                                 /\ Unescape(inner) = name
                                 /\ Len(inner) = Len(name) + Escapes(name)
                         ELSE names[j] = trim(fonts[j])
FontNamesQuotedWitness ==
    /\ tidied # <<>>
    /\ \E i \in 1..Len(tidied[1].cssRules) :
          /\ tidied[1].replaced[i].style["font-family"] = <<"A", "b", ",", " ", "C", " ", "d">>
          /\ tidied[1].styleObj[i].style["font-family"] =
                <<"A", "b", ",", " ", "\"", "C", " ", "d", "\"">>
    /\ \E i \in 1..Len(tidied[1].cssRules) :
          /\ tidied[1].replaced[i].style["font-family"] = <<" ", "A", "-", "b", " ", ",", "A", "b">>
          /\ tidied[1].styleObj[i].style["font-family"] = <<"A", "-", "b", ",", " ", "A", "b">>

\* ------------------------------------------------------------------ C19
\* C19 as stated: with a fonts option, font-family is set to it on exactly
\* the rules that declare font-family or are the only rule of the document;
\* every other rule keeps no font-family.
FontReplacedSoleRule ==
    (tidied # <<>> /\ options.fonts # <<>>) =>
        \A i \in 1..Len(tidied[1].cssRules) :
            IF Declares(tidied[1].cssRules[i], "font-family") \/ Len(tidied[1].cssRules) = 1
            THEN tidied[1].replaced[i].style["font-family"] = options.fonts
            ELSE ~Declares(tidied[1].styleObj[i], "font-family")
\* The style elements the rules are read from: the document's, or the one
\* created for a document that has none
StyleCount == IF Len(html) = 0 THEN 1 ELSE Len(html)
\* C19: with a fonts option, font-family is set to it on exactly the rules
\* that declare font-family or belong to a document with exactly one style
\* element; a rule that does not declare font-family in a document with more
\* than one style element keeps no font-family.
FontReplaced ==
    (tidied # <<>> /\ options.fonts # <<>>) =>
        \A i \in 1..Len(tidied[1].cssRules) :
            IF Declares(tidied[1].cssRules[i], "font-family") \/ StyleCount = 1
            THEN /\ tidied[1].replaced[i].style["font-family"] = options.fonts
                 /\ tidied[1].styleObj[i].style["font-family"] = parsedFonts(options.fonts)
            ELSE /\ tidied[1].replaced[i] = tidied[1].cssRules[i]
                 /\ ~Declares(tidied[1].styleObj[i], "font-family")
FontReplacedWitness ==
    /\ tidied # <<>> /\ options.fonts = <<"C", " ", "d">>
    /\ Len(html) = 1 /\ Len(tidied[1].cssRules) = 2
    /\ \E i \in 1..2 :
          /\ ~Declares(tidied[1].cssRules[i], "font-family")
          /\ tidied[1].replaced[i].style["font-family"] = options.fonts

\* ------------------------------------------------------------------ C20
\* C20: in the document returned, every rule whose selector text begins with
\* div has page-break-inside: avoid, and the background-color of the option
\* when one is given; every other rule has the page-break-inside and the
\* background-color it had, and without the option every rule has the
\* background-color it had.
DivRulesOnly ==
    tidied # <<>> =>
        \A i \in 1..Len(tidied[1].cssRules) :
            LET before == tidied[1].cssRules[i]
                after == tidied[1].html[1].rules[i]
            IN /\ after.selectorText = before.selectorText
               /\ IF IsPrefix(DivSelector, before.selectorText)
                  THEN /\ after.style["page-break-inside"] = Avoid
                       /\ after.style["background-color"] =
                             IF options.backgroundColor # <<>>
                             THEN options.backgroundColor
                             ELSE before.style["background-color"]
                  ELSE /\ after.style["page-break-inside"] = before.style["page-break-inside"]
                       /\ after.style["background-color"] = before.style["background-color"]
DivRulesOnlyWitness ==
    /\ tidied # <<>> /\ options.backgroundColor = <<"#", "f", "f", "f">>
    /\ \E i \in 1..Len(tidied[1].cssRules) :
          /\ tidied[1].cssRules[i].selectorText = DivSelector \o <<".", "a">>
          /\ tidied[1].cssRules[i].style["background-color"] = <<"#", "0", "0", "0">>
          /\ tidied[1].html[1].rules[i].style["background-color"] = <<"#", "f", "f", "f">>
          /\ tidied[1].html[1].rules[i].style["page-break-inside"] = Avoid
    /\ \E i \in 1..Len(tidied[1].cssRules) :
          /\ tidied[1].cssRules[i].selectorText = <<"p", " ">> \o DivSelector
          /\ ~Declares(tidied[1].html[1].rules[i], "page-break-inside")
          /\ ~Declares(tidied[1].html[1].rules[i], "background-color")

\* ------------------------------------------------------------------ C21
\* C21: for a document without style elements and with a fonts or
\* backgroundColor option, the document returned has one style element whose
\* only rule is a div rule with page-break-inside: avoid, the fonts option as
\* the quoting step writes it when one is given, and the backgroundColor
\* option when one is given.
DefaultDivRule ==
    (tidied # <<>> /\ Len(html) = 0 /\ options # NoOptions) =>
        LET out == tidied[1].html IN
        /\ Len(out) = 1
        /\ Len(out[1].rules) = 1
        /\ out[1].rules[1].selectorText = DivSelector
        /\ out[1].rules[1].style["page-break-inside"] = Avoid
        /\ out[1].rules[1].style["background-color"] = options.backgroundColor
        /\ out[1].rules[1].style["font-family"] = minifyValue(parsedFonts(options.fonts))
        /\ out[1].rules[1].style["color"] = <<>>
DefaultDivRuleWitness ==
    /\ tidied # <<>> /\ Len(html) = 0
    /\ options = [fonts |-> <<"C", " ", "d">>, backgroundColor |-> <<"#", "f", "f", "f">>]
    /\ tidied[1].html[1].rules[1].style["font-family"] = <<"\"", "C", " ", "d", "\"">>
    /\ tidied[1].html[1].rules[1].style["background-color"] = <<"#", "f", "f", "f">>
    /\ tidied[1].html[1].rules[1].style["page-break-inside"] = Avoid

\* ------------------------------------------------------------------ C22
\* C22: for a document whose style elements hold no rule, or that has no
\* style element, and without options, the document returned has no rule
\* and as many style elements as the document had.
NoOpWithoutStyles ==
    (tidied # <<>> /\ RulesOf(html) = <<>> /\ options = NoOptions) =>
        /\ RulesOf(tidied[1].html) = <<>>
        /\ Len(tidied[1].html) = Len(html)

\* ------------------------------------------------------------------ C23
\* C23: whenever a file written for a request is in the temp directory, the
\* request's docLocation is recorded and its directory and id are the start
\* of the file's path, so the onSend hook's pattern matches the file, also
\* after a failed write, conversion or handler.
TargetRecorded ==
    \A r \in Reqs : \A f \in fs :
        <<f, r>> \in createdBy =>
            /\ docLocation[r] # NoLocation
            /\ docLocation[r].directory = directory
            /\ IsPrefix(docLocation[r].directory \o docLocation[r].id, f)
TargetRecordedWitness ==
    \E r \in Reqs :
        /\ pc[r] = "error" /\ convErr[r] # <<>>
        /\ <<docLocation[r].rtf, r>> \in createdBy
        /\ docLocation[r].rtf \in fs
        /\ docLocation[r].id # <<>>

\* ------------------------------------------------------------------ C24
\* C24: every request that was received is eventually answered, with the
\* document or with an error, also when the converter never answers; and a
\* request that was answered stays as it is.
Terminates ==
    /\ \A r \in Reqs : (pc[r] # "new") ~> Done(r)
    /\ [][\A r \in Reqs : Done(r) =>
              /\ pc'[r] = pc[r]
              /\ stages'[r] = stages[r]
              /\ reply'[r] = reply[r]]_vars

\* ------------------------------------------------------------------ C25
\* The request is rejected before anything is staged for it: its Accept
\* header does not admit text/html, its Content-Type has no parser, or its
\* body does not carry the RTF signature
RejectedBeforeStaging(r) ==
    /\ pc[r] # "new"
    /\ \/ "text/html" \notin req[r].accept
       \/ req[r].contentType # "application/rtf"
       \/ ~IsPrefix(RtfMagic, req[r].body)
\* C25: a request rejected before staging has no docLocation; its onSend hook
\* starts no cleanup and unlinks nothing, and the request wrote nothing,
\* whatever files other requests have in the temp directory.
RejectedDeletesNothing ==
    \A r \in Reqs : RejectedBeforeStaging(r) =>
        /\ docLocation[r] = NoLocation
        /\ runs[r] = 0
        /\ pending[r] = {}
        /\ RemovedBy(r) = {}
        /\ CreatedBy(r) = {}
        /\ pc[r] \in {"done", "unlinking", "onSend"} => reply[r].statusCode \in {406, 415}
RejectedDeletesNothingWitness ==
    \E r, o \in Reqs :
        /\ r # o
        /\ Done(r) /\ RejectedBeforeStaging(r) /\ reply[r].statusCode = 415
        /\ pc[o] = "converting" /\ docLocation[o].rtf \in fs

\* ------------------------------------------------------------------ C26
\* C26: the plugin is ready only with its temp directory there, whether
\* fs.mkdir created it or threw EEXIST; after EEXIST the plugin is ready and
\* requests are served; after any other error the plugin has failed and no
\* request is taken, so nothing is staged.
MkdirIdempotent ==
    /\ plugin = "ready" => (tempDir = "exists" /\ mkdirErr \in {"none", "EEXIST"})
    /\ (plugin # "registering" /\ mkdirErr = "EEXIST") => plugin = "ready"
    /\ mkdirErr \notin {"none", "EEXIST"} =>
          /\ plugin = "failed"
          /\ fs = {} /\ createdBy = {} /\ usedIds = {}
          /\ \A r \in Reqs : pc[r] = "new" /\ docLocation[r] = NoLocation
MkdirIdempotentWitness ==
    /\ mkdirErr = "EEXIST" /\ plugin = "ready"
    /\ Done(1) /\ reply[1].statusCode = 200
    /\ stages[1] = Pipeline
    /\ <<docLocation[1].rtf, 1>> \in createdBy

====
